---- MODULE Spec2Model ----
(***************************************************************************)
(* Model of custom_components/semopx/aio_price.py: AioPrices.fetch, the    *)
(* index walker _fetch_semopx_json and the result merger                   *)
(* _retrieve_market_results with _determine_context_prefix,                *)
(* _parse_semopx_time, _merge_prices and _finalize_records.                *)
(*                                                                         *)
(* Python str values are sequences of one-character strings, so that       *)
(* slicing (Date[:10]) and the substring test (a in b) are computed.       *)
(* A float produced by price / 1000 is the exact rational <<num, den>> in  *)
(* lowest terms; for the integer prices used here two such floats are      *)
(* equal exactly when the rationals are.                                   *)
(***************************************************************************)
EXTENDS Integers, Sequences, FiniteSets, TLC

\* ------------------------------------------------------------------ bounds
\* retries that backoff.on_exception is followed through (it never gives up)
MaxAttempts == 2
\* items of the index listing the walker is run against
MaxIndexItems == 3
\* items the API puts on one index page
MaxPageSize == 2
\* largest totalPages the API reports (0 is reported too)
MaxTotal == 2
\* largest value of the walker's days parameter besides fetch's own
MaxDays == 2
\* columns (timestamps, prices) of one row
MaxCols == 2

\* fetch calls self._fetch_semopx_json(days=5)
FetchDays == 5
\* price / 1000
KwhDivisor == 1000

\* ------------------------------------------------------------ python values
TagDA == <<"S","E","M","-","D","A">>
TagIDA1 == <<"S","E","M","-","I","D","A","1">>
TagIDA2 == <<"S","E","M","-","I","D","A","2">>
TagIDA3 == <<"S","E","M","-","I","D","A","3">>

ResDA == <<"S","E","M","-","D","A","-","1">>
ResIDA1 == <<"S","E","M","-","I","D","A","1","-","1">>
ResIDA2 == <<"S","E","M","-","I","D","A","2","-","1">>
ResIDA3 == <<"S","E","M","-","I","D","A","3","-","1">>
ResOther == <<"B","A","L","I","M","B","-","1">>

DateD1 == <<"2","0","2","4","-","0","1","-","0","3","T","0","0",":","0","0",":","0","0">>
DateD1b == <<"2","0","2","4","-","0","1","-","0","3","T","1","2",":","0","0",":","0","0">>
DateD2 == <<"2","0","2","4","-","0","1","-","0","2","T","0","0",":","0","0",":","0","0">>
DateD3 == <<"2","0","2","4","-","0","1","-","0","1","T","0","0",":","0","0",":","0","0">>

AreaROI == <<"R","O","I">>
AreaNI == <<"N","I">>
DescROI == <<"R","O","I","-","d","e","s","c">>
DescNIDA == <<"N","I","-","D","A">>
DescIndex == <<"I","n","d","e","x"," ","p","r","i","c","e","s">>

TsJan0 == <<"2","0","2","4","-","0","1","-","0","1","T","0","0",":","0","0",":","0","0","Z">>
TsJul23 == <<"2","0","2","4","-","0","7","-","0","1","T","2","3",":","3","0",":","0","0","Z">>

\* a Python str and a Python list, told apart where the code indexes either
PyStr(s) == [t |-> "str", v |-> s]
PyList(l) == [t |-> "list", v |-> l]

Min(a, b) == IF a <= b THEN a ELSE b

\* s[:n]
Slice(s, n) == SubSeq(s, 1, Min(n, Len(s)))

\* a in b, both str
IsSubstring(a, b) ==
    \E i \in 0..(Len(b) - Len(a)) : SubSeq(b, i + 1, i + Len(a)) = a

\* ------------------------------------------------- _determine_context_prefix
NoPrefix == "None"

DetermineContextPrefix(resource_name) ==
    IF IsSubstring(TagDA, resource_name) THEN "da_"
    ELSE IF IsSubstring(TagIDA1, resource_name) THEN "ida1_"
    ELSE IF IsSubstring(TagIDA2, resource_name) THEN "ida2_"
    ELSE IF IsSubstring(TagIDA3, resource_name) THEN "ida3_"
    ELSE NoPrefix

\* mutant: every session writes the one field
RateFieldShared(context_prefix) == "da_kwh_rate"

\* f'{context_prefix}kwh_rate'
RateField(context_prefix) ==
    CASE context_prefix = "da_" -> "da_kwh_rate"
      [] context_prefix = "ida1_" -> "ida1_kwh_rate"
      [] context_prefix = "ida2_" -> "ida2_kwh_rate"
      [] context_prefix = "ida3_" -> "ida3_kwh_rate"

\* ------------------------------------------------------- _parse_semopx_time
DigitVal(c) ==
    CASE c = "0" -> 0 [] c = "1" -> 1 [] c = "2" -> 2 [] c = "3" -> 3
      [] c = "4" -> 4 [] c = "5" -> 5 [] c = "6" -> 6 [] c = "7" -> 7
      [] c = "8" -> 8 [] c = "9" -> 9

DigitChar(n) ==
    CASE n = 0 -> "0" [] n = 1 -> "1" [] n = 2 -> "2" [] n = 3 -> "3"
      [] n = 4 -> "4" [] n = 5 -> "5" [] n = 6 -> "6" [] n = 7 -> "7"
      [] n = 8 -> "8" [] n = 9 -> "9"

Num2(s, i) == DigitVal(s[i]) * 10 + DigitVal(s[i + 1])

\* days since 1970-01-01 of a proleptic Gregorian date
DaysFromCivil(y, m, d) ==
    LET yy == IF m <= 2 THEN y - 1 ELSE y
        era == yy \div 400
        yoe == yy - era * 400
        mp == IF m > 2 THEN m - 3 ELSE m + 9
        doy == (153 * mp + 2) \div 5 + d - 1
        doe == yoe * 365 + yoe \div 4 - yoe \div 100 + doy
    IN  era * 146097 + doe - 719468

CivilFromDays(days) ==
    LET z == days + 719468
        era == z \div 146097
        doe == z - era * 146097
        yoe == (doe - doe \div 1460 + doe \div 36524 - doe \div 146096) \div 365
        doy == doe - (365 * yoe + yoe \div 4 - yoe \div 100)
        mp == (5 * doy + 2) \div 153
        d == doy - (153 * mp + 2) \div 5 + 1
        m == IF mp < 10 THEN mp + 3 ELSE mp - 9
        y == yoe + era * 400 + (IF m <= 2 THEN 1 ELSE 0)
    IN  [y |-> y, m |-> m, d |-> d]

\* dateutil's parse_dt on "YYYY-MM-DDTHH:MM:SSZ", then utc_dt.timestamp()
ParseDt(datetime_str) ==
    LET y == Num2(datetime_str, 1) * 100 + Num2(datetime_str, 3)
        days == DaysFromCivil(y, Num2(datetime_str, 6), Num2(datetime_str, 9))
    IN  days * 86400 + Num2(datetime_str, 12) * 3600
        + Num2(datetime_str, 15) * 60 + Num2(datetime_str, 18)

\* the names of pytz.all_timezones that the configurations below use
AllTimezones == {"Europe/Dublin", "UTC"}

\* the last Sunday of a 31-day month, at 01:00 UTC
LastSunday0100(y, m) ==
    LET last == DaysFromCivil(y, m, 31)
    IN  (last - ((last + 4) % 7)) * 86400 + 3600

\* utcoffset of pytz's timezone(tz) at an instant
UtcOffset(tz, ts) ==
    IF tz = "Europe/Dublin"
    THEN LET y == CivilFromDays(ts \div 86400).y
         IN  IF LastSunday0100(y, 3) <= ts /\ ts < LastSunday0100(y, 10)
             THEN 3600 ELSE 0
    ELSE 0

Pad2(n) == <<DigitChar(n \div 10), DigitChar(n % 10)>>

\* local_dt.strftime('%Y/%m/%d %H:%M:%S') of utc_dt.astimezone(local_tz)
Strftime(tz, ts) ==
    LET loc == ts + UtcOffset(tz, ts)
        c == CivilFromDays(loc \div 86400)
        sod == loc % 86400
    IN  Pad2(c.y \div 100) \o Pad2(c.y % 100) \o <<"/">> \o Pad2(c.m) \o <<"/">>
        \o Pad2(c.d) \o <<" ">> \o Pad2(sod \div 3600) \o <<":">>
        \o Pad2((sod % 3600) \div 60) \o <<":">> \o Pad2(sod % 60)

\* _parse_semopx_time: ValueError when the timezone is not recognised, else
\* (int(utc_dt.timestamp()), local_dt); local_dt is kept as the instant and
\* formatted by Strftime where the code formats it
ParseSemopxTime(self, datetime_str) ==
    IF self.timezone \notin AllTimezones
    THEN [err |-> "ValueError"]
    ELSE [err |-> "ok", ts |-> ParseDt(datetime_str)]

\* ------------------------------------------------------------ _async_fetch
\* a 204 gives None, anything else the JSON body
AsyncFetch(resp) ==
    IF resp.status = 204
    THEN [isNone |-> TRUE]
    ELSE [isNone |-> FALSE, json |-> resp.json]

\* not semopx_resp_dict: None, or a dict without keys
Falsy(fetched) == fetched.isNone \/ DOMAIN fetched.json = {}

\* ------------------------------------------------------ _fetch_semopx_json
\* report_dict is the insertion-ordered dict as a sequence of its values;
\* report is the local variable of that name: the position in report_dict of
\* the dict it refers to (0 while unbound)
HasKey(report_dict, key_date) ==
    \E g \in 1..Len(report_dict) : report_dict[g].date = key_date

\* mutant: only the item that opens a group is recorded
GroupItemOncePerDate(st, item_rec) ==
    IF HasKey(st.report_dict, Slice(item_rec.Date, 10)) THEN st
    ELSE [report_dict |->
             Append(st.report_dict,
                    [date |-> Slice(item_rec.Date, 10),
                     resources |-> <<item_rec.ResourceName>>]),
          report |-> Len(st.report_dict) + 1]

\* one pass of `for item_rec in semopx_resp_dict['items']` (lines 65-70)
GroupItem(st, item_rec) ==
    LET key_date == Slice(item_rec.Date, 10)
        created == ~HasKey(st.report_dict, key_date)
        rd == IF created
              THEN Append(st.report_dict, [date |-> key_date, resources |-> <<>>])
              ELSE st.report_dict
        rep == IF created THEN Len(rd) ELSE st.report
    IN  [report_dict |->
            [rd EXCEPT ![rep].resources = Append(@, item_rec.ResourceName)],
         report |-> rep]

RECURSIVE GroupItems(_, _)
GroupItems(st, items) ==
    IF items = <<>> THEN st
    ELSE GroupItems(GroupItem(st, Head(items)), Tail(items))

\* mutant: the entry is written only when the map has none (setdefault)
SetPageOnce(params, page) == IF params = 0 THEN page ELSE params

\* self.params['page'] = page: the entry of the client's map after line 62
SetPage(params, page) == page

\* mutant: the page test off by one (page > total_pages)
WalkerStopsPastTotal(page, total_pages, report_dict, days) ==
    page > total_pages \/ Len(report_dict) > days

\* mutant: the day test off by one (len(report_dict) >= days)
WalkerStopsAtDays(page, total_pages, report_dict, days) ==
    page >= total_pages \/ Len(report_dict) >= days

\* mutant: the walker ignores the day count
WalkerStopsOnPagesOnly(page, total_pages, report_dict, days) ==
    page >= total_pages

\* if page >= total_pages or len(report_dict) > days: break
WalkerStops(page, total_pages, report_dict, days) ==
    page >= total_pages \/ Len(report_dict) > days

\* ------------------------------------------------------------ _merge_prices
Abs(n) == IF n < 0 THEN -n ELSE n

RECURSIVE Gcd(_, _)
Gcd(a, b) == IF b = 0 THEN a ELSE Gcd(b, a % b)

\* price / 1000
KwhRate(price) ==
    LET g == Gcd(KwhDivisor, Abs(price))
    IN  <<price \div g, KwhDivisor \div g>>

SetField(rec, k, v) ==
    [x \in DOMAIN rec \cup {k} |-> IF x = k THEN v ELSE rec[x]]

SetKey(rec_dict, ts, rec) ==
    [x \in DOMAIN rec_dict \cup {ts} |-> IF x = ts THEN rec ELSE rec_dict[x]]

\* mutant: a price met again for the same timestamp and prefix is added
AddRates(a, b) ==
    <<(a[1] * b[2] + b[1] * a[2]) \div Gcd(a[2] * b[2], Abs(a[1] * b[2] + b[1] * a[2])),
      (a[2] * b[2]) \div Gcd(a[2] * b[2], Abs(a[1] * b[2] + b[1] * a[2]))>>

MergePriceSumming(self, rec_dict, ts, price, context_prefix) ==
    IF ts \in DOMAIN rec_dict /\ RateField(context_prefix) \in DOMAIN rec_dict[ts]
    THEN SetKey(rec_dict, ts,
                SetField(rec_dict[ts], RateField(context_prefix),
                         AddRates(rec_dict[ts][RateField(context_prefix)], KwhRate(price))))
    ELSE SetKey(rec_dict, ts,
                SetField(IF ts \in DOMAIN rec_dict THEN rec_dict[ts]
                         ELSE [ts |-> ts,
                               datetime |-> Strftime(self.timezone, ts),
                               market_area |-> self.market_area,
                               currency |-> self.currency],
                         RateField(context_prefix), KwhRate(price)))

\* mutant: a price met again for the same timestamp and prefix is dropped
MergePriceKeepsFirst(self, rec_dict, ts, price, context_prefix) ==
    IF ts \in DOMAIN rec_dict /\ RateField(context_prefix) \in DOMAIN rec_dict[ts]
    THEN rec_dict
    ELSE SetKey(rec_dict, ts,
                SetField(IF ts \in DOMAIN rec_dict THEN rec_dict[ts]
                         ELSE [ts |-> ts,
                               datetime |-> Strftime(self.timezone, ts),
                               market_area |-> self.market_area,
                               currency |-> self.currency],
                         RateField(context_prefix), KwhRate(price)))

\* the body of `for price in data_set_list[3]` at position i (lines 136-147)
MergePrice(self, rec_dict, ts, price, context_prefix) ==
    LET data_rec == [ts |-> ts,
                     datetime |-> Strftime(self.timezone, ts),
                     market_area |-> self.market_area,
                     currency |-> self.currency]
        rec == IF ts \in DOMAIN rec_dict THEN rec_dict[ts] ELSE data_rec
    IN  SetKey(rec_dict, ts, SetField(rec, RateField(context_prefix), KwhRate(price)))

\* mutant: the two lists are zipped, the longer one cut to the shorter
RECURSIVE MergePricesFromZip(_, _, _, _, _, _)
MergePricesFromZip(self, rec_dict, key_list, prices, context_prefix, i) ==
    IF i > Len(prices) \/ i > Len(key_list) THEN [err |-> "ok", rec_dict |-> rec_dict]
    ELSE MergePricesFromZip(self,
            MergePrice(self, rec_dict, key_list[i], prices[i], context_prefix),
            key_list, prices, context_prefix, i + 1)

\* _merge_prices from position i on: key_list[i] beyond the list is an
\* IndexError, raised with the records written so far left in place
RECURSIVE MergePricesFrom(_, _, _, _, _, _)
MergePricesFrom(self, rec_dict, key_list, prices, context_prefix, i) ==
    IF i > Len(prices) THEN [err |-> "ok", rec_dict |-> rec_dict]
    ELSE IF i > Len(key_list) THEN [err |-> "IndexError", rec_dict |-> rec_dict]
    ELSE MergePricesFrom(self,
            MergePrice(self, rec_dict, key_list[i], prices[i], context_prefix),
            key_list, prices, context_prefix, i + 1)

MergePrices(self, rec_dict, key_list, data_set_list, context_prefix) ==
    MergePricesFrom(self, rec_dict, key_list, data_set_list[4], context_prefix, 1)

\* --------------------------------------------------------- _finalize_records
\* mutant: the priority chain upside down (da first)
FinalizeRecordDayAheadFirst(rec) ==
    IF "da_kwh_rate" \in DOMAIN rec
    THEN SetField(rec, "final_kwh_rate", rec["da_kwh_rate"])
    ELSE IF "ida1_kwh_rate" \in DOMAIN rec
    THEN SetField(rec, "final_kwh_rate", rec["ida1_kwh_rate"])
    ELSE IF "ida2_kwh_rate" \in DOMAIN rec
    THEN SetField(rec, "final_kwh_rate", rec["ida2_kwh_rate"])
    ELSE IF "ida3_kwh_rate" \in DOMAIN rec
    THEN SetField(rec, "final_kwh_rate", rec["ida3_kwh_rate"])
    ELSE rec

\* mutant: the chain stops after the intraday sessions
FinalizeRecordIntradayOnly(rec) ==
    IF "ida3_kwh_rate" \in DOMAIN rec
    THEN SetField(rec, "final_kwh_rate", rec["ida3_kwh_rate"])
    ELSE IF "ida2_kwh_rate" \in DOMAIN rec
    THEN SetField(rec, "final_kwh_rate", rec["ida2_kwh_rate"])
    ELSE IF "ida1_kwh_rate" \in DOMAIN rec
    THEN SetField(rec, "final_kwh_rate", rec["ida1_kwh_rate"])
    ELSE rec

FinalizeRecord(rec) ==
    IF "ida3_kwh_rate" \in DOMAIN rec
    THEN SetField(rec, "final_kwh_rate", rec["ida3_kwh_rate"])
    ELSE IF "ida2_kwh_rate" \in DOMAIN rec
    THEN SetField(rec, "final_kwh_rate", rec["ida2_kwh_rate"])
    ELSE IF "ida1_kwh_rate" \in DOMAIN rec
    THEN SetField(rec, "final_kwh_rate", rec["ida1_kwh_rate"])
    ELSE IF "da_kwh_rate" \in DOMAIN rec
    THEN SetField(rec, "final_kwh_rate", rec["da_kwh_rate"])
    ELSE rec

FinalizeRecords(rec_dict) ==
    [ts \in DOMAIN rec_dict |-> FinalizeRecord(rec_dict[ts])]

\* -------------------------------------------------- _retrieve_market_results
\* mutant: the area is read from data_set_list[0][0]
AreaItemFirst(descriptor) ==
    IF Len(descriptor.v) < 1 THEN [err |-> "IndexError"]
    ELSE [err |-> "ok",
          v |-> IF descriptor.t = "str" THEN <<descriptor.v[1]>> ELSE descriptor.v[1]]

\* data_set_list[0][1]: of a str its second character, of a list its second
\* element; an IndexError when there is none
AreaItem(descriptor) ==
    IF Len(descriptor.v) < 2 THEN [err |-> "IndexError"]
    ELSE [err |-> "ok",
          v |-> IF descriptor.t = "str" THEN <<descriptor.v[2]>> ELSE descriptor.v[2]]

\* mutant: no area filter
AreaMatchesAlways(self, area_item) == TRUE

\* if self.market_area not in data_set_list[0][1]: continue
AreaMatches(self, area_item) == IsSubstring(self.market_area, area_item)

\* [self._parse_semopx_time(date_str) for date_str in data_set_list[2]]
KeyList(self, date_strs) ==
    IF date_strs # <<>> /\ self.timezone \notin AllTimezones
    THEN [err |-> "ValueError"]
    ELSE [err |-> "ok",
          key_list |-> [i \in 1..Len(date_strs) |->
                            ParseSemopxTime(self, date_strs[i]).ts]]

\* one pass of `for data_set_list in semopx_resp_dict.get('rows', [])`
MergeMatchingRow(self, rec_dict, keys, data_set_list, context_prefix) ==
    IF keys.err # "ok" THEN [err |-> keys.err, rec_dict |-> rec_dict]
    ELSE MergePrices(self, rec_dict, keys.key_list, data_set_list, context_prefix)

FilterRow(self, rec_dict, area, data_set_list, context_prefix) ==
    IF area.err # "ok" THEN [err |-> area.err, rec_dict |-> rec_dict]
    ELSE IF ~AreaMatches(self, area.v) THEN [err |-> "ok", rec_dict |-> rec_dict]
    ELSE MergeMatchingRow(self, rec_dict, KeyList(self, data_set_list[3]),
                          data_set_list, context_prefix)

MergeRow(self, rec_dict, data_set_list, context_prefix) ==
    FilterRow(self, rec_dict, AreaItem(data_set_list[1]), data_set_list, context_prefix)

\* the loop over the rows: an exception in one row ends it
RECURSIVE MergeRows(_, _, _, _)
RestOfRows(self, merged, rows, context_prefix) ==
    IF merged.err # "ok" THEN merged
    ELSE MergeRows(self, merged.rec_dict, rows, context_prefix)

MergeRows(self, rec_dict, rows, context_prefix) ==
    IF rows = <<>> THEN [err |-> "ok", rec_dict |-> rec_dict]
    ELSE RestOfRows(self, MergeRow(self, rec_dict, Head(rows), context_prefix),
                    Tail(rows), context_prefix)

\* semopx_resp_dict.get('rows', [])
RowsOf(json) == IF "rows" \in DOMAIN json THEN json.rows ELSE <<>>

\* mutant: a resource without a session tag is merged as day-ahead
MergeTaggedAsDayAhead(self, rec_dict, fetched, context_prefix) ==
    IF context_prefix = NoPrefix
    THEN MergeRows(self, rec_dict, RowsOf(fetched.json), "da_")
    ELSE MergeRows(self, rec_dict, RowsOf(fetched.json), context_prefix)

\* if not context_prefix: continue, else the loop over the rows
MergeTagged(self, rec_dict, fetched, context_prefix) ==
    IF context_prefix = NoPrefix THEN [err |-> "ok", rec_dict |-> rec_dict]
    ELSE MergeRows(self, rec_dict, RowsOf(fetched.json), context_prefix)

\* the body of `for resource_name in report['resources']` once the detail
\* response is in (lines 84-99)
MergeResource(self, rec_dict, resource_name, fetched) ==
    IF Falsy(fetched) THEN [err |-> "ok", rec_dict |-> rec_dict]
    ELSE MergeTagged(self, rec_dict, fetched, DetermineContextPrefix(resource_name))

\* the order in which the nested loops of lines 81-82 visit the resources
RECURSIVE Resources(_)
Resources(report_dict) ==
    IF report_dict = <<>> THEN <<>>
    ELSE Head(report_dict).resources \o Resources(Tail(report_dict))

\* ------------------------------------------------------------------ fetch
\* mutant: only KeyError is retried
RetryableKeyErrorOnly == {"KeyError"}

\* backoff.on_exception(backoff.expo, (aiohttp.ClientError, KeyError), ...)
Retryable == {"ClientError", "KeyError"}

\* ------------------------------------------------------------- environment
SeqsUpTo(S, n) == UNION {[1..k -> S] : k \in 0..n}

Item(d, r) == [Date |-> d, ResourceName |-> r]

\* index contents for the walker: every listing of these items, served
\* MaxPageSize or fewer to a page
WalkItems ==
    {Item(DateD1, ResDA), Item(DateD1b, ResOther), Item(DateD2, ResIDA2)}

RECURSIVE Paginate(_, _)
Paginate(listing, size) ==
    IF Len(listing) <= size
    THEN (IF listing = <<>> THEN <<>> ELSE <<listing>>)
    ELSE <<SubSeq(listing, 1, size)>>
         \o Paginate(SubSeq(listing, size + 1, Len(listing)), size)

\* two pages with dates D1,D1,D2 and D2,D3,D3
TwoPageIndex ==
    << <<Item(DateD1, ResDA), Item(DateD1, ResIDA1), Item(DateD2, ResIDA2)>>,
       <<Item(DateD2, ResIDA3), Item(DateD3, ResOther), Item(DateD3, ResDA)>> >>

WalkIndexes ==
    {Paginate(listing, size) : listing \in SeqsUpTo(WalkItems, MaxIndexItems),
                               size \in 1..MaxPageSize}
        \cup {TwoPageIndex}

\* index contents for the merger: one page of no resource, one resource or
\* two resources of every session, in either order
MergeItems ==
    {Item(DateD1, ResDA), Item(DateD1, ResIDA1), Item(DateD2, ResIDA2),
     Item(DateD2, ResIDA3)}

MergeIndexes ==
    {<< <<>> >>}
        \cup {<< <<a>> >> : a \in MergeItems}
        \cup {<< <<a, b>> >> : a \in MergeItems, b \in MergeItems}

DefaultConfig ==
    [currency |-> "euro", market_area |-> AreaROI, timezone |-> "Europe/Dublin"]

Configs ==
    {DefaultConfig,
     [currency |-> "gbp", market_area |-> AreaNI, timezone |-> "UTC"],
     [currency |-> "euro", market_area |-> AreaROI, timezone |-> "Mars/Olympus"]}

Descriptors ==
    {PyStr(DescROI), PyList(<<DescIndex, DescROI>>),
     PyList(<<DescIndex, DescNIDA>>), PyList(<<AreaROI, DescNIDA>>)}

Timestamps == {TsJan0, TsJul23}
Prices == {1000, 1200}

\* a timestamp column of n half-hours and a price column of m prices; nothing
\* in a document ties the two lengths, and they are taken equal or one apart
\* either way
TimestampColumn(n) == [i \in 1..n |-> IF i % 2 = 1 THEN TsJan0 ELSE TsJul23]
PriceColumn(m, first) ==
    [i \in 1..m |-> IF i % 2 = 1 THEN first ELSE 2200 - first]

ColumnLengths ==
    {nm \in (0..MaxCols) \X (0..MaxCols) : nm[1] - nm[2] \in -1..1}

Rows ==
    {<<d, "Price", TimestampColumn(nm[1]), PriceColumn(nm[2], first)>> :
        d \in Descriptors, nm \in ColumnLengths, first \in Prices}

\* rows for the documents of two rows: the same timestamp at two prices in
\* the client's area, and at a third price in another area
PairRows ==
    {<<PyList(<<DescIndex, DescROI>>), "Price", <<TsJan0>>, <<1000>> >>,
     <<PyList(<<DescIndex, DescROI>>), "Price", <<TsJan0>>, <<1200>> >>,
     <<PyList(<<DescIndex, DescNIDA>>), "Price", <<TsJan0, TsJul23>>, <<1200, 1000>> >>}

\* the detail documents the API serves: a dict with no row, one row or two
\* rows, and the empty dict
BasicDoc == [rows |-> << <<PyList(<<DescIndex, DescROI>>), "Price", <<TsJan0>>, <<1000>> >> >>]

Docs(docset) ==
    IF docset = "rich"
    THEN {[rows |-> <<>>], <<>>}
         \cup {[rows |-> <<r>>] : r \in Rows}
         \cup {[rows |-> <<r1, r2>>] : r1 \in PairRows, r2 \in PairRows}
    ELSE {BasicDoc}

\* what page p of the index holds: pages past the content are empty
PageItems(index, p) == IF p <= Len(index) THEN index[p] ELSE <<>>

VARIABLES
    self,         \* the client's currency, market_area, timezone
    days,         \* the days argument of _fetch_semopx_json
    index,        \* the API's index contents, page by page
    totalPages,   \* pagination.totalPages as the API reports it
    docset,       \* which detail documents the API serves
    pc,           \* where the fetch call is suspended
    attempt,      \* the attempt of backoff.on_exception under way
    page,         \* _fetch_semopx_json's page
    params,       \* self.params['page'] (0: not set)
    report_dict,  \* _fetch_semopx_json's report_dict
    report,       \* _fetch_semopx_json's report
    pending,      \* resources the merger has still to finish, first in flight
    rec_dict,     \* _retrieve_market_results' rec_dict
    result,       \* what fetch returned
    error,        \* the last exception raised
    last_resp,    \* the last answer of the API: which endpoint, which outcome
    sent,         \* the page in the query of this call's index request in
                  \* flight (0: none in flight)
    other         \* a second fetch call on the same client: where its walker
                  \* is suspended, its page, report_dict, report and sent

env == <<self, days, index, totalPages, docset>>
call == <<pc, attempt, page, report_dict, report, pending, rec_dict, result,
          error, last_resp, sent>>
vars == <<self, days, index, totalPages, docset, pc, attempt, page, params,
          report_dict, report, pending, rec_dict, result, error, last_resp,
          sent, other>>

NoDict == <<>>

\* no second call, and a second call about to start
NoCall == [pc |-> "none", page |-> 0, report_dict |-> <<>>, report |-> 0, sent |-> 0]
NewCall == [pc |-> "sleep", page |-> 0, report_dict |-> <<>>, report |-> 0, sent |-> 0]

Init ==
    /\ \/ /\ index \in WalkIndexes
          /\ totalPages \in 0..MaxTotal
          /\ days \in 0..MaxDays \cup {FetchDays}
          /\ self = DefaultConfig
          /\ docset = "basic"
          /\ other = NoCall
       \/ /\ index \in MergeIndexes
          /\ totalPages = 1
          /\ days = FetchDays
          /\ self \in Configs
          /\ docset = "rich"
          /\ other = NoCall
       \/ /\ index = TwoPageIndex
          /\ totalPages = 2
          /\ days = FetchDays
          /\ self = DefaultConfig
          /\ docset = "basic"
          /\ other = NewCall
    /\ pc = "sleep"
    /\ attempt = 1
    /\ page = 0
    /\ params = 0
    /\ report_dict = <<>>
    /\ report = 0
    /\ pending = <<>>
    /\ rec_dict = NoDict
    /\ result = NoDict
    /\ error = "none"
    /\ last_resp = "none"
    /\ sent = 0

\* an exception leaves fetch: its frames are gone; backoff retries the
\* exceptions it was given and lets the others through to the caller
Raise(err) ==
    /\ pc' = IF err \in Retryable THEN "backoff" ELSE "raised"
    /\ error' = err
    /\ report_dict' = <<>>
    /\ report' = 0
    /\ pending' = <<>>
    /\ rec_dict' = NoDict
    /\ UNCHANGED <<env, attempt, page, params, result>>

\* lines 101-107 once the loops are over
Return(rd) ==
    /\ pc' = "done"
    /\ rec_dict' = FinalizeRecords(rd)
    /\ result' = [areas |-> FinalizeRecords(rd)]
    /\ pending' = <<>>

\* asyncio.sleep(1) is over: page += 1, self.params['page'] = page, and the
\* index request goes out (lines 60-63). No await between the write of line 62
\* and client.get of line 40 suspends the call, so the query is built from
\* the map as this call has just written it
WalkRequest ==
    /\ pc = "sleep"
    /\ page' = page + 1
    /\ params' = SetPage(params, page + 1)
    /\ sent' = params'
    /\ pc' = "index"
    /\ UNCHANGED <<env, attempt, report_dict, report, pending, rec_dict, result,
                   error, last_resp, other>>

\* the index page arrives (lines 65-74); when the walker stops fetch goes on
\* into _retrieve_market_results up to its first detail request
IndexPage ==
    /\ pc = "index"
    /\ last_resp' = "index_200"
    /\ LET st == GroupItems([report_dict |-> report_dict, report |-> report],
                            PageItems(index, page))
       IN  /\ report_dict' = st.report_dict
           /\ report' = st.report
           /\ IF WalkerStops(page, totalPages, st.report_dict, days)
              THEN IF Resources(st.report_dict) = <<>>
                   THEN Return(NoDict)
                   ELSE /\ pc' = "detail"
                        /\ pending' = Resources(st.report_dict)
                        /\ rec_dict' = NoDict
                        /\ result' = result
              ELSE /\ pc' = "sleep"
                   /\ UNCHANGED <<pending, rec_dict, result>>
    /\ sent' = 0
    /\ UNCHANGED <<env, attempt, page, params, error, other>>

\* the index body lacks 'items' or 'pagination'
IndexMissingKey ==
    /\ pc = "index"
    /\ last_resp' = "index_nokey"
    /\ Raise("KeyError")
    /\ sent' = 0
    /\ UNCHANGED other

\* the index answers 204: None['items']
IndexNoContent ==
    /\ pc = "index"
    /\ last_resp' = "index_204"
    /\ Raise("TypeError")
    /\ sent' = 0
    /\ UNCHANGED other

\* the index request fails in the transport
IndexClientError ==
    /\ pc = "index"
    /\ last_resp' = "index_error"
    /\ Raise("ClientError")
    /\ sent' = 0
    /\ UNCHANGED other

\* the detail response of the resource in flight has been fetched: merge it
\* and go on to the next request, or finalize and return
NextResource(merged) ==
    IF merged.err # "ok" THEN Raise(merged.err)
    ELSE /\ IF Tail(pending) = <<>>
            THEN Return(merged.rec_dict)
            ELSE /\ pc' = "detail"
                 /\ pending' = Tail(pending)
                 /\ rec_dict' = merged.rec_dict
                 /\ result' = result
         /\ UNCHANGED <<env, attempt, page, params, report_dict, report, error>>

DetailFetched(fetched) ==
    NextResource(MergeResource(self, rec_dict, Head(pending), fetched))

DetailDocument ==
    /\ pc = "detail"
    /\ last_resp' = "detail_200"
    /\ \E doc \in Docs(docset) : DetailFetched(AsyncFetch([status |-> 200, json |-> doc]))
    /\ UNCHANGED <<sent, other>>

DetailNoContent ==
    /\ pc = "detail"
    /\ last_resp' = "detail_204"
    /\ DetailFetched(AsyncFetch([status |-> 204]))
    /\ UNCHANGED <<sent, other>>

DetailClientError ==
    /\ pc = "detail"
    /\ last_resp' = "detail_error"
    /\ Raise("ClientError")
    /\ UNCHANGED <<sent, other>>

\* mutant: the next attempt takes up the walk at the page after the failed one
RetryResumes ==
    /\ pc = "backoff"
    /\ attempt' = Min(attempt + 1, MaxAttempts)
    /\ pc' = "sleep"
    /\ UNCHANGED <<env, page, report_dict, report, params, pending, rec_dict,
                   result, error, last_resp, sent, other>>

\* backoff's wait is over: fetch is called again. on_exception is given no
\* max_tries and no max_time, so there is always a next attempt; the count of
\* attempts, which only sets the length of the wait, is kept up to MaxAttempts
Retry ==
    /\ pc = "backoff"
    /\ attempt' = Min(attempt + 1, MaxAttempts)
    /\ pc' = "sleep"
    /\ page' = 0
    /\ report_dict' = <<>>
    /\ report' = 0
    /\ UNCHANGED <<env, params, pending, rec_dict, result, error, last_resp,
                   sent, other>>

\* the second call's walker: the same lines 60-63 and 65-74 run on its own
\* page and report_dict and on the client's one self.params; once its walker
\* stops it no longer touches the map
OtherWalkRequest ==
    /\ other.pc = "sleep"
    /\ params' = SetPage(params, other.page + 1)
    /\ other' = [other EXCEPT !.pc = "index", !.page = other.page + 1,
                              !.sent = params']
    /\ UNCHANGED <<env, call>>

OtherGrouped(st) ==
    [pc |-> IF WalkerStops(other.page, totalPages, st.report_dict, days)
            THEN "merge" ELSE "sleep",
     page |-> other.page,
     report_dict |-> st.report_dict,
     report |-> st.report,
     sent |-> 0]

OtherIndexPage ==
    /\ other.pc = "index"
    /\ other' = OtherGrouped(GroupItems([report_dict |-> other.report_dict,
                                         report |-> other.report],
                                        PageItems(index, other.page)))
    /\ UNCHANGED <<env, call, params>>

Next ==
    \/ WalkRequest
    \/ IndexPage
    \/ IndexMissingKey
    \/ IndexNoContent
    \/ IndexClientError
    \/ DetailDocument
    \/ DetailNoContent
    \/ DetailClientError
    \/ Retry
    \/ OtherWalkRequest
    \/ OtherIndexPage

Spec == Init /\ [][Next]_vars

\* the event loop resumes a call whose sleep or backoff wait is over, and
\* every request sent gets an answer, of whatever kind
IndexAnswered == IndexPage \/ IndexMissingKey \/ IndexNoContent \/ IndexClientError
DetailAnswered == DetailNoContent \/ DetailClientError \/ DetailDocument

LiveSpec ==
    /\ Spec
    /\ WF_vars(WalkRequest)
    /\ WF_vars(IndexAnswered)
    /\ WF_vars(DetailAnswered)
    /\ WF_vars(Retry)
    /\ WF_vars(OtherWalkRequest)
    /\ WF_vars(OtherIndexPage)

\* ------------------------------------------------------------------ claims
SessionFields == {"da_kwh_rate", "ida1_kwh_rate", "ida2_kwh_rate", "ida3_kwh_rate"}

\* the index items that have arrived once pages 1..q are in
RECURSIVE Arrived(_)
Arrived(q) == IF q = 0 THEN <<>> ELSE Arrived(q - 1) \o PageItems(index, q)

DateKey(item) == SubSeq(item.Date, 1, IF Len(item.Date) < 10 THEN Len(item.Date) ELSE 10)

DateKeys(q) == {DateKey(Arrived(q)[i]) : i \in 1..Len(Arrived(q))}

\* the ResourceNames of the items of one date, in arrival order
NamesOfDate(items, key) ==
    LET OfDate(it) == DateKey(it) = key
        sel == SelectSeq(items, OfDate)
    IN  [i \in 1..Len(sel) |-> sel[i].ResourceName]

WalkerReturned == pc \in {"detail", "done"}

\* C1: every record of the result has final_kwh_rate equal to its
\* highest-priority session field (ida3 > ida2 > ida1 > da), and none when it
\* has no session field.
FinalOf(rec) ==
    IF "ida3_kwh_rate" \in DOMAIN rec THEN rec["ida3_kwh_rate"]
    ELSE IF "ida2_kwh_rate" \in DOMAIN rec THEN rec["ida2_kwh_rate"]
    ELSE IF "ida1_kwh_rate" \in DOMAIN rec THEN rec["ida1_kwh_rate"]
    ELSE rec["da_kwh_rate"]

C1_FinalIsHighestPriority ==
    pc = "done" =>
        \A ts \in DOMAIN result.areas :
            LET rec == result.areas[ts]
            IN  IF DOMAIN rec \cap SessionFields = {}
                THEN "final_kwh_rate" \notin DOMAIN rec
                ELSE /\ "final_kwh_rate" \in DOMAIN rec
                     /\ rec["final_kwh_rate"] = FinalOf(rec)

\* a day-ahead price of 1000 overtaken by an IDA2 price of 1200
C1_Witness ==
    /\ pc = "done"
    /\ \E ts \in DOMAIN result.areas :
           /\ {"da_kwh_rate", "ida2_kwh_rate"} \subseteq DOMAIN result.areas[ts]
           /\ result.areas[ts]["da_kwh_rate"] = <<1, 1>>
           /\ result.areas[ts]["ida2_kwh_rate"] = <<6, 5>>
           /\ result.areas[ts]["final_kwh_rate"] = <<6, 5>>

\* C2: when the walker returns, each group's resources are exactly the
\* ResourceNames of the arrived items with that group's date key, in arrival
\* order.
C2_GroupsHoldTheirOwnItems ==
    WalkerReturned =>
        \A g \in 1..Len(report_dict) :
            report_dict[g].resources = NamesOfDate(Arrived(page), report_dict[g].date)

\* C3: the walker stops exactly at the first page p with p >= totalPages or
\* more than `days` distinct dates among the items of pages 1..p, and requests
\* no page after it.
StopAt(q) == q >= totalPages \/ Cardinality(DateKeys(q)) > days

C3_StopsAtFirstStopPage ==
    /\ WalkerReturned => StopAt(page) /\ \A q \in 1..(page - 1) : ~StopAt(q)
    /\ pc = "index" => \A q \in 1..(page - 1) : ~StopAt(q)
    /\ pc = "sleep" => \A q \in 1..page : ~StopAt(q)

\* stopped by the day count before the last page
C3_Witness ==
    /\ pc = "detail"
    /\ page < totalPages
    /\ Cardinality(DateKeys(page)) > days
    /\ days > 0

\* C4 as claimed: no index request is for a page beyond totalPages, whatever
\* totalPages the API reports (0 included).
C4_NeverBeyondTotalPages == pc = "index" => page <= totalPages

\* C4 amended: only the first request, page 1, can be beyond totalPages (when
\* the API reports 0); every later request is for a page within totalPages.
C4_OnlyPageOneBeyondTotal == pc = "index" => (page = 1 \/ page <= totalPages)

\* the request for the last page
C4_Witness == pc = "index" /\ page = totalPages /\ page > 1

\* C5 as claimed: on the two-page index (dates D1,D1,D2 / D2,D3,D3,
\* totalPages = 2) the walker requests both pages and returns the groups of
\* D1, D2, D3, for every days.
TwoPageGroups ==
    /\ page = 2
    /\ {report_dict[g].date : g \in 1..Len(report_dict)}
         = {DateKey(Item(DateD1, ResDA)), DateKey(Item(DateD2, ResDA)),
            DateKey(Item(DateD3, ResDA))}

C5_TwoPagesForEveryDays ==
    (index = TwoPageIndex /\ totalPages = 2 /\ WalkerReturned) => TwoPageGroups

\* C5 amended: it does so for every days >= 2.
C5_TwoPagesForDaysFromTwo ==
    (index = TwoPageIndex /\ totalPages = 2 /\ days >= 2 /\ WalkerReturned)
        => TwoPageGroups

C5_Witness ==
    /\ index = TwoPageIndex /\ totalPages = 2 /\ days = FetchDays
    /\ pc = "done" /\ page = 2 /\ Len(report_dict) = 3

\* the scenario's detail document, its area descriptor the str "ROI-desc"
StrDescDoc == [rows |-> << <<PyStr(DescROI), "Price", <<TsJan0>>, <<1000>> >> >>]

\* the same document with "ROI-desc" at [0][1] of the row
ListDescDoc ==
    [rows |-> << <<PyList(<<DescIndex, DescROI>>), "Price", <<TsJan0>>, <<1000>> >> >>]

OneRecordAtOne(areas) ==
    /\ Cardinality(DOMAIN areas) = 1
    /\ \A ts \in DOMAIN areas :
           /\ {"da_kwh_rate", "final_kwh_rate"} \subseteq DOMAIN areas[ts]
           /\ areas[ts]["da_kwh_rate"] = <<1, 1>>
           /\ areas[ts]["final_kwh_rate"] = <<1, 1>>

OnlyDayAheadResource ==
    /\ pc = "detail"
    /\ self.market_area = AreaROI
    /\ Resources(report_dict) = <<ResDA>>
    /\ pending = <<ResDA>>

DescriptorContains(area, descriptor) ==
    IF descriptor.t = "str" THEN IsSubstring(area, descriptor.v)
    ELSE \E i \in 1..Len(descriptor.v) : IsSubstring(area, descriptor.v[i])

Prefixes == {"da_", "ida1_", "ida2_", "ida3_"}

\* C7: a row whose area descriptor does not contain the market-area code adds
\* no record and changes no field of a record, whatever the records so far.
C7_OtherAreaRowContributesNothing ==
    (docset = "rich" /\ pc = "detail") =>
        \A row \in Rows :
            ~DescriptorContains(self.market_area, row[1]) =>
                \A context_prefix \in Prefixes :
                    MergeRow(self, rec_dict, row, context_prefix).rec_dict = rec_dict

\* records exist and a row of another area with a price could be served
C7_Witness ==
    /\ docset = "rich" /\ pc = "detail"
    /\ DOMAIN rec_dict # {}
    /\ \E row \in Rows :
           /\ ~DescriptorContains(self.market_area, row[1])
           /\ Len(row[3]) = 2 /\ Len(row[4]) = 2
           /\ MergeRow(self, rec_dict, row, "da_").err = "ok"

\* C8: _merge_prices applied a second time with the same rows and prefix
\* leaves the record set as the first application left it.
ParsedKeys(date_strs) == [i \in 1..Len(date_strs) |-> ParseDt(date_strs[i])]

C8_MergeTwiceIsMergeOnce ==
    (docset = "rich" /\ pc = "detail" /\ self.timezone \in {"Europe/Dublin", "UTC"}) =>
        \A row \in Rows, context_prefix \in Prefixes :
            LET key_list == ParsedKeys(row[3])
                once == MergePrices(self, rec_dict, key_list, row, context_prefix)
                twice == MergePrices(self, once.rec_dict, key_list, row, context_prefix)
            IN  twice.rec_dict = once.rec_dict

\* the record set already holds a value that a further application overwrites
\* with another price
C8_Witness ==
    /\ docset = "rich" /\ pc = "detail"
    /\ \E ts \in DOMAIN rec_dict :
           /\ "da_kwh_rate" \in DOMAIN rec_dict[ts]
           /\ rec_dict[ts]["da_kwh_rate"] = <<6, 5>>
           /\ MergePrices(self, rec_dict, <<ts>>, <<0, 0, <<>>, <<1000>> >>, "da_")
                .rec_dict[ts]["da_kwh_rate"] = <<1, 1>>

\* what a resource that fails or is skipped leaves behind: the records keep
\* every field but final_kwh_rate, the next resource is in flight or fetch has
\* returned, and no exception was raised
RecordsKept ==
    /\ DOMAIN rec_dict' = DOMAIN rec_dict
    /\ \A ts \in DOMAIN rec_dict :
           /\ DOMAIN rec_dict'[ts] \ {"final_kwh_rate"} = DOMAIN rec_dict[ts] \ {"final_kwh_rate"}
           /\ \A f \in DOMAIN rec_dict[ts] \ {"final_kwh_rate"} :
                  rec_dict'[ts][f] = rec_dict[ts][f]

MergerGoesOn ==
    /\ pending' = Tail(pending)
    /\ pc' = IF Tail(pending) = <<>> THEN "done" ELSE "detail"
    /\ error' = error
    /\ attempt' = attempt

\* a step of this call, not of the second one
OwnStep == other' = other

NoSessionTag(resource_name) ==
    \A tag \in {TagDA, TagIDA1, TagIDA2, TagIDA3} : ~IsSubstring(tag, resource_name)

\* C9: a resource whose detail fetch answers 204, or whose name carries none
\* of the four session tags, leaves the records unchanged, raises nothing, and
\* the merger goes on with the later resources in order.
C9_SkippedResourceChangesNothing ==
    [][(/\ pc = "detail" /\ OwnStep
        /\ \/ last_resp' = "detail_204"
           \/ last_resp' = "detail_200" /\ NoSessionTag(Head(pending)))
       => (RecordsKept /\ MergerGoesOn)]_vars

\* a 204 with records already merged and resources still to come
C9_Witness ==
    /\ pc = "detail"
    /\ last_resp = "detail_204"
    /\ DOMAIN rec_dict # {}

\* C10 as claimed: a detail request that fails, by an empty response or by a
\* transport error, keeps the merged records, goes on with the remaining
\* resources and lets the attempt return without walking the index again.
C10_DetailFailureNeverAborts ==
    [][(pc = "detail" /\ OwnStep /\ last_resp' \in {"detail_204", "detail_error"})
       => (RecordsKept /\ MergerGoesOn /\ page' = page /\ report_dict' = report_dict)]_vars

\* C10 amended: that holds of the empty response; a transport error leaves
\* fetch, the merged records are dropped, and the retry walks the index again
\* from page 1.
C10_OnlyEmptyResponseIsSkipped ==
    [][/\ (pc = "detail" /\ OwnStep /\ last_resp' = "detail_204")
            => (RecordsKept /\ MergerGoesOn /\ page' = page /\ report_dict' = report_dict)
       /\ (pc = "detail" /\ OwnStep /\ last_resp' = "detail_error")
            => (pc' = "backoff" /\ error' = "ClientError" /\ rec_dict' = NoDict)
       /\ (pc = "backoff" /\ pc' # "backoff")
            => (pc' = "sleep" /\ page' = 0 /\ report_dict' = <<>> /\ rec_dict' = NoDict)]_vars

\* the retry after a failed detail request, asking for page 1 again
C10_Witness ==
    /\ last_resp = "detail_error"
    /\ attempt = 2
    /\ pc = "index"
    /\ page = 1

\* C11 as claimed: with a timezone name that is not a recognised one, fetch
\* never returns a result, whatever the index and the detail documents hold,
\* a document with no row of the market area included.
C11_InvalidTimezoneNeverReturns ==
    (self.timezone \notin AllTimezones /\ last_resp = "detail_200") => pc # "done"

\* C12 as claimed: an index request answered 204 raises an exception that
\* backoff retries, as it retries a transport error.
C12_IndexNoContentIsRetried ==
    [][(pc = "index" /\ OwnStep /\ last_resp' = "index_204") => pc' = "backoff"]_vars

\* C13 as claimed: every fetch call ends, with a result or with an exception
\* handed to the caller, also when every attempt fails with a retried error.
C13_EveryFetchEnds == <>(pc \in {"done", "raised"})

\* an index request in flight whose query carries another page than the
\* page counter of the walker that sent it
ForeignPageSent ==
    \/ pc = "index" /\ sent # page
    \/ other.pc = "index" /\ other.sent # other.page

PassesFilter(row) ==
    /\ AreaItem(row[1]).err = "ok"
    /\ AreaMatches(self, AreaItem(row[1]).v)

RowEntries(row) ==
    IF PassesFilter(row)
    THEN [i \in 1..Len(row[4]) |-> [ts |-> ParseDt(row[3][i]), price |-> row[4][i]]]
    ELSE <<>>

RECURSIVE DocEntries(_)
DocEntries(rows) ==
    IF rows = <<>> THEN <<>> ELSE RowEntries(Head(rows)) \o DocEntries(Tail(rows))

EntryTimes(entries) == {entries[j].ts : j \in 1..Len(entries)}

LastEntry(entries, ts) ==
    entries[CHOOSE j \in 1..Len(entries) :
                /\ entries[j].ts = ts
                /\ \A k \in (j + 1)..Len(entries) : entries[k].ts # ts]

\* rate = price / 1000, exactly
IsKwhOf(rate, price) == rate[1] * 1000 = price * rate[2] /\ rate[2] > 0

\* after a document is merged under a prefix: the field of that prefix holds
\* the last entry of the document for the timestamp, and every other session
\* field, and that field where the document has no entry, is as it was
LastWriteWins(before, after, entries, field) ==
    /\ DOMAIN after = DOMAIN before \cup EntryTimes(entries)
    /\ \A ts \in DOMAIN after : \A f \in SessionFields :
           IF f = field /\ ts \in EntryTimes(entries)
           THEN /\ f \in DOMAIN after[ts]
                /\ IsKwhOf(after[ts][f], LastEntry(entries, ts).price)
           ELSE IF ts \in DOMAIN before /\ f \in DOMAIN before[ts]
           THEN f \in DOMAIN after[ts] /\ after[ts][f] = before[ts][f]
           ELSE f \notin DOMAIN after[ts]

MergedDocs == {doc \in Docs("rich") : "rows" \in DOMAIN doc}

\* C15: whatever the records so far, a document merged without a fault under
\* a prefix leaves in each record one value of that prefix, price/1000 of the
\* last entry for the timestamp among the rows that passed the area filter
\* (later rows, columns and resources overwrite earlier ones), and leaves the
\* values of the other prefixes alone.
C15_LastWriteWins ==
    (docset = "rich" /\ pc = "detail") =>
        \A doc \in MergedDocs, context_prefix \in Prefixes :
            LET merged == MergeRows(self, rec_dict, doc.rows, context_prefix)
            IN  merged.err = "ok" =>
                    LastWriteWins(rec_dict, merged.rec_dict, DocEntries(doc.rows),
                                  RateField(context_prefix))

\* the second of two fetches of SEM-DA-1 is in flight, the first left 1.2 at
\* a timestamp, and a document with 1000 for that timestamp can be served
C15_Witness ==
    /\ docset = "rich" /\ pc = "detail"
    /\ Resources(report_dict) = <<ResDA, ResDA>>
    /\ pending = <<ResDA>>
    /\ ParseDt(TsJan0) \in DOMAIN rec_dict
    /\ "da_kwh_rate" \in DOMAIN rec_dict[ParseDt(TsJan0)]
    /\ rec_dict[ParseDt(TsJan0)]["da_kwh_rate"] = <<6, 5>>
    /\ \E doc \in MergedDocs :
           /\ Len(doc.rows) = 2
           /\ Len(DocEntries(doc.rows)) = 2
           /\ ParseDt(TsJan0) \in EntryTimes(DocEntries(doc.rows))
           /\ LastEntry(DocEntries(doc.rows), ParseDt(TsJan0)).price = 1000

\* every item the index holds, on the pages requested and on the others
AllItems == Arrived(Len(index))

\* the day of an item's Date, and of a group's date key
DayOf(item) == ParseDt(item.Date) \div 86400
DayOfKey(key) == DaysFromCivil(Num2(key, 1) * 100 + Num2(key, 3), Num2(key, 6), Num2(key, 9))

\* the index lists its items most recent day first
NonIncreasingDates ==
    \A i \in 1..Len(AllItems) : \A j \in (i + 1)..Len(AllItems) :
        DayOf(AllItems[i]) >= DayOf(AllItems[j])

\* C16: when the items come most recent day first and the walker returns with
\* more than `days` groups, the first `days` groups are the `days` most recent
\* days of the index and each holds every item of its day, those of pages
\* never requested included.
C16_NeededDaysAreComplete ==
    (WalkerReturned /\ NonIncreasingDates /\ Len(report_dict) > days) =>
        \A g \in 1..days :
            /\ report_dict[g].resources = NamesOfDate(AllItems, report_dict[g].date)
            /\ \A i \in 1..Len(AllItems) :
                   \/ \E h \in 1..days : report_dict[h].date = DateKey(AllItems[i])
                   \/ DayOf(AllItems[i]) < DayOfKey(report_dict[g].date)

\* the walker stopped after page 1 of 2 with the groups of two days for
\* days = 1: the first day is whole, the overshoot day has an item on page 2
C16_Witness ==
    /\ pc = "detail"
    /\ index = TwoPageIndex /\ totalPages = 2 /\ days = 1 /\ page = 1
    /\ NonIncreasingDates
    /\ Len(report_dict) = 2
    /\ report_dict[1].resources = <<ResDA, ResIDA1>>
    /\ report_dict[2].resources # NamesOfDate(AllItems, report_dict[2].date)

\* the positions of a row that get a price: those of the price list
Paired(row) == 1..Len(row[4])

\* price i is in the record of timestamp i, unless a later position of the
\* row has the same timestamp; a timestamp with no price is left as it was
PairedByPosition(before, after, row, field) ==
    /\ \A i \in Paired(row) :
           /\ ParseDt(row[3][i]) \in DOMAIN after
           /\ field \in DOMAIN after[ParseDt(row[3][i])]
           /\ (\A j \in Paired(row) : j > i => row[3][j] # row[3][i])
                  => IsKwhOf(after[ParseDt(row[3][i])][field], row[4][i])
    /\ \A i \in (1..Len(row[3])) \ Paired(row) :
           (\A j \in Paired(row) : row[3][j] # row[3][i]) =>
               IF ParseDt(row[3][i]) \in DOMAIN before
               THEN /\ ParseDt(row[3][i]) \in DOMAIN after
                    /\ after[ParseDt(row[3][i])] = before[ParseDt(row[3][i])]
               ELSE ParseDt(row[3][i]) \notin DOMAIN after

\* C17: for a row that passes the area filter, with a recognised timezone:
\* a price list no longer than the timestamp list is paired by position and
\* the surplus timestamps get nothing from the row; a longer price list is an
\* IndexError, which is not retried and leaves fetch without a result.
C17_PairedByPositionOfPrices ==
    /\ (docset = "rich" /\ pc = "detail" /\ self.timezone \in AllTimezones) =>
           \A row \in Rows, context_prefix \in Prefixes :
               PassesFilter(row) =>
                   LET merged == MergeRow(self, rec_dict, row, context_prefix)
                   IN  IF Len(row[4]) <= Len(row[3])
                       THEN /\ merged.err = "ok"
                            /\ PairedByPosition(rec_dict, merged.rec_dict, row,
                                                RateField(context_prefix))
                       ELSE merged.err = "IndexError"
    /\ error = "IndexError" =>
           /\ pc = "raised"
           /\ last_resp = "detail_200"
           /\ result = NoDict

\* a price list longer than the timestamp list was served: fetch has raised
\* IndexError on its first attempt
C17_Witness ==
    /\ pc = "raised" /\ error = "IndexError" /\ attempt = 1
    /\ \E row \in Rows :
           /\ PassesFilter(row)
           /\ Len(row[4]) = 2 /\ Len(row[3]) = 1

\* the group map an attempt builds from the items of its own pages 1..q
GroupsOf(q) == GroupItems([report_dict |-> <<>>, report |-> 0], Arrived(q)).report_dict

\* the record sets an attempt can have merged from these resources when
\* each detail request is answered by the basic document or by a 204
BasicAnswers ==
    {AsyncFetch([status |-> 204]), AsyncFetch([status |-> 200, json |-> BasicDoc])}

RECURSIVE PossibleRecs(_)
PossibleRecs(resources) ==
    IF resources = <<>> THEN {NoDict}
    ELSE UNION {{MergeResource(self, r, resources[Len(resources)], f).rec_dict :
                    f \in BasicAnswers} :
                r \in PossibleRecs(SubSeq(resources, 1, Len(resources) - 1))}

Merged == SubSeq(Resources(report_dict), 1, Len(Resources(report_dict)) - Len(pending))

\* the state of fetch is what the current attempt alone has built: the group
\* map from the pages it received, the records from the resources it merged
OfThisAttempt ==
    /\ pc = "sleep" => report_dict = GroupsOf(page) /\ rec_dict = NoDict
    /\ pc = "index" => report_dict = GroupsOf(page - 1) /\ rec_dict = NoDict
    /\ pc \in {"backoff", "raised"} => report_dict = <<>> /\ rec_dict = NoDict
    /\ pc \in {"detail", "done"} => report_dict = GroupsOf(page)
    /\ (pc = "detail" /\ pending = Resources(report_dict)) => rec_dict = NoDict
    /\ (pc = "detail" /\ docset = "basic") => rec_dict \in PossibleRecs(Merged)
    /\ (pc = "done" /\ docset = "basic") =>
           result.areas \in {FinalizeRecords(r) : r \in PossibleRecs(Resources(report_dict))}
    /\ pc # "done" => result = NoDict

\* C18: the attempt after a retried error starts with page 0, no group and no
\* record and asks for page 1; in every attempt the group map is that of the
\* pages the attempt received and the records, and the result, are ones a
\* fetch without error gives on the same index.
C18_RetryStartsFromScratch ==
    /\ []OfThisAttempt
    /\ [][/\ (pc = "backoff" /\ pc' # "backoff")
                => (/\ pc' = "sleep" /\ page' = 0 /\ report_dict' = <<>>
                    /\ rec_dict' = NoDict /\ pending' = <<>> /\ env' = env)
          /\ (pc = "sleep" /\ pc' = "index" /\ page = 0)
                => (page' = 1 /\ sent' = 1)]_vars

\* a fetch of the two-page index returned on its second attempt, after the
\* first one met a missing key
C18_Witness ==
    /\ pc = "done" /\ attempt = 2 /\ error = "KeyError"
    /\ index = TwoPageIndex /\ totalPages = 2 /\ days = FetchDays
    /\ page = 2 /\ Len(report_dict) = 3
    /\ DOMAIN result.areas # {}

\* a record under the key of its own ts, with the client's market_area and
\* currency and a value of at least one session
WellFormed(recs) ==
    \A ts \in DOMAIN recs :
        /\ recs[ts].ts = ts
        /\ recs[ts].market_area = self.market_area
        /\ recs[ts].currency = self.currency
        /\ DOMAIN recs[ts] \cap SessionFields # {}

\* C19: the records are well formed while the merger runs, after each
\* document merged and also where a fault cuts a merge short, and in the
\* result, where every record has a final_kwh_rate as well.
C19_RecordsAreWellFormed ==
    /\ WellFormed(rec_dict)
    /\ (docset = "rich" /\ pc = "detail") =>
           \A doc \in MergedDocs, context_prefix \in Prefixes :
               WellFormed(MergeRows(self, rec_dict, doc.rows, context_prefix).rec_dict)
    /\ pc = "done" =>
           /\ WellFormed(result.areas)
           /\ \A ts \in DOMAIN result.areas : "final_kwh_rate" \in DOMAIN result.areas[ts]

\* a result of two records in pounds for NI, one of them with the day-ahead
\* value alone
C19_Witness ==
    /\ pc = "done"
    /\ self.currency = "gbp" /\ self.market_area = AreaNI
    /\ Cardinality(DOMAIN result.areas) = 2
    /\ \E ts \in DOMAIN result.areas :
           DOMAIN result.areas[ts] \cap SessionFields = {"da_kwh_rate"}

\* two resources merged one after the other, from the records so far: the
\* second is not reached when the first raises
MergeSecond(first, r2, f2) ==
    IF first.err # "ok" THEN first ELSE MergeResource(self, first.rec_dict, r2, f2)

MergeTwo(recs, r1, f1, r2, f2) ==
    MergeSecond(MergeResource(self, recs, r1, f1), r2, f2)

ValueFields == SessionFields \cup {"final_kwh_rate"}

\* the same timestamps, and at each the same session values and final value
SameValues(a, b) ==
    /\ DOMAIN a = DOMAIN b
    /\ \A ts \in DOMAIN a : \A f \in ValueFields :
           /\ f \in DOMAIN a[ts] <=> f \in DOMAIN b[ts]
           /\ f \in DOMAIN a[ts] => a[ts][f] = b[ts][f]

\* merging r1 then r2 and merging r2 then r1, each with its own answer, both
\* raise or both give the same values once finalized
SwapGivesSame(recs, r1, f1, r2, f2) ==
    LET ab == MergeTwo(recs, r1, f1, r2, f2)
        ba == MergeTwo(recs, r2, f2, r1, f1)
    IN  /\ ab.err = "ok" <=> ba.err = "ok"
        /\ ab.err = "ok" =>
               SameValues(FinalizeRecords(ab.rec_dict), FinalizeRecords(ba.rec_dict))

SessionResources == {ResDA, ResIDA1, ResIDA2, ResIDA3}

AllAnswers ==
    {AsyncFetch([status |-> 204])}
        \cup {AsyncFetch([status |-> 200, json |-> doc]) : doc \in Docs("rich")}

\* the answers with two rows, and the empty one
PairAnswers ==
    {AsyncFetch([status |-> 204])}
        \cup {AsyncFetch([status |-> 200, json |-> doc]) :
                 doc \in {d \in MergedDocs : Len(d.rows) = 2}}

\* C20: swapping two resources of different session prefixes that are
\* processed one after the other changes no session value and no
\* final_kwh_rate: for the two resources of an index, over every pair of
\* answers, and for the resource in flight and any other one, from every
\* record set the merger reaches (the merger of a later attempt reaches the
\* same ones).
C20_OrderOfSessionsIsImmaterial ==
    /\ (docset = "rich" /\ pc = "detail" /\ attempt = 1 /\ Len(pending) = 2
           /\ DetermineContextPrefix(pending[1]) # DetermineContextPrefix(pending[2])) =>
           \A f1 \in AllAnswers, f2 \in AllAnswers :
               SwapGivesSame(rec_dict, pending[1], f1, pending[2], f2)
    /\ (docset = "rich" /\ pc = "detail" /\ attempt = 1) =>
           \A r2 \in SessionResources :
               DetermineContextPrefix(r2) # DetermineContextPrefix(Head(pending)) =>
                   \A f1 \in PairAnswers, f2 \in PairAnswers :
                       SwapGivesSame(rec_dict, Head(pending), f1, r2, f2)

\* the intraday-3 resource was merged before the day-ahead one, both priced
\* the same timestamp, and the final value is the intraday one
C20_Witness ==
    /\ pc = "done"
    /\ Resources(report_dict) = <<ResIDA3, ResDA>>
    /\ \E ts \in DOMAIN result.areas :
           /\ {"da_kwh_rate", "ida3_kwh_rate"} \subseteq DOMAIN result.areas[ts]
           /\ result.areas[ts]["da_kwh_rate"] = <<6, 5>>
           /\ result.areas[ts]["ida3_kwh_rate"] = <<1, 1>>
           /\ result.areas[ts]["final_kwh_rate"] = <<1, 1>>

====
